---- MODULE Spec2Model ----
(***************************************************************************)
(* Order processing engine of the e-commerce backend: OrderController's    *)
(* createOrder, cancelOrder and updateOrderStatus handlers                 *)
(* (src/src/controllers/order.controller.ts) running as concurrent         *)
(* requests against one database.  Every `await` of a handler is a point   *)
(* where another request may run; a prisma.$transaction buffers its writes *)
(* and makes them visible to other requests only when it commits.          *)
(***************************************************************************)
EXTENDS Integers, Sequences, FiniteSets, TLC

(* ------------------------------ bounds --------------------------------- *)
\* Requests served in one behaviour.
MaxOps == 3
\* Longest item list of a createOrder request.
MaxItems == 2
\* Largest quantity of one line.
MaxQty == 2
\* Stock of the product and of its variant in the initial catalog.
InitProductStock == 1
InitVariantStock == 2

(* --------------------------- program constants ------------------------- *)
\* Amounts are counted in cents, as integers.
TaxPercent == 10
FreeShippingOver == 10000
FlatShipping == 1000

Null == "null"
Reqs == {"r1", "r2"}
Users == {"u1", "u2"}
\* The user who places the orders.
Buyer == "u1"
\* The administrator, who has no address and places no order.
Staff == "u0"
\* user.role of the user table.
RoleOf == [u \in Users \cup {Staff} |-> IF u = Staff THEN "ADMIN" ELSE "CUSTOMER"]
\* The authenticated callers.
Callers == Users \cup {Staff}
Products == {"P1"}
Variants == {"V1"}
Addresses == {"a1", "a2"}
AddressOwner == [a \in Addresses |-> IF a = "a1" THEN "u1" ELSE "u2"]
AddressInputs == Addresses \cup {"a0"}

OrderStatuses ==
    {"PENDING", "CONFIRMED", "PROCESSING", "SHIPPED", "DELIVERED", "CANCELLED", "REFUNDED"}
TrackingInputs == {Null, "TRK1"}
NotesInputs == {Null, "note"}

\* An item of a request body: the quantity is any whole number from 0 up, of which
\* createOrderSchema lets the positive ones pass.
ItemInputs == [productId : Products, variantId : Variants \cup {Null}, quantity : 0..MaxQty]
ItemLists == UNION {[1..n -> ItemInputs] : n \in 0..MaxItems}

VARIABLES
    products,     \* product table: id -> [name, isActive, stockQuantity, price]
    variants,     \* productVariant table: id -> [productId, isActive, stockQuantity, price]
    orders,       \* order table, in creation order; an order's id is its index
    orderItem,    \* orderItem table: rows [orderId, productId, variantId, quantity, ...]
    clock,        \* the time new Date() reads
    pc,           \* where each request is in its handler
    req,          \* the locals of each request's handler
    res,          \* the response each request has sent
    opCount,      \* requests started so far
    preStock,     \* history: per order, the stock levels its creation found at commit
    last          \* history: the request that answered last

vars == <<products, variants, orders, orderItem, clock, pc, req, res, opCount,
          preStock, last>>

db == <<products, variants, orders, orderItem>>

(* ------------------------------ helpers -------------------------------- *)
RECURSIVE SumQuantity(_)
\* Sum of the quantities of the rows.
SumQuantity(rows) ==
    IF rows = <<>> THEN 0 ELSE Head(rows).quantity + SumQuantity(Tail(rows))

NoOrder == [id |-> 0, status |-> Null, items |-> <<>>, shippedAt |-> 0, deliveredAt |-> 0]

IdleReq == [op |-> Null, userId |-> Null, items |-> <<>>, shippingAddressId |-> Null,
            billingAddressId |-> Null, i |-> 0, orderItems |-> <<>>, subtotal |-> 0,
            id |-> 0, order |-> NoOrder, status |-> Null, trackingNumber |-> Null,
            notes |-> Null, productId |-> Null]

\* A response: the HTTP status, the message (of a 200 or 201 about an order, the
\* order status in its data), the product name or id an error message carries, and
\* the notification the handler has issued before it answered.
NoRes == [op |-> Null, status |-> 0, message |-> Null, orderId |-> 0, name |-> Null,
          email |-> Null]

\* The rows of the orderItem table that belong to order id.
ItemsOf(id) == SelectSeq(orderItem, LAMBDA row : row.orderId = id)

\* Sends the response and ends the handler (res.status(..).json, or the error
\* handler after a throw).
Reply(r, response) ==
    /\ res' = [res EXCEPT ![r] = response]
    /\ pc' = [pc EXCEPT ![r] = "done"]
    /\ req' = [req EXCEPT ![r] = IdleReq]
    /\ last' = r

\* A response that names no product, from a handler that has issued no notification.
Respond(r, op, status, message, orderId) ==
    Reply(r, [NoRes EXCEPT !.op = op, !.status = status, !.message = message,
                           !.orderId = orderId])

\* As RespondNaming, but with a message that carries no name.
RespondWithoutName(r, status, message, name) ==
    Reply(r, [NoRes EXCEPT !.op = "createOrder", !.status = status, !.message = message])

\* An error of the validation loop, whose message carries a product's name or id.
RespondNaming(r, status, message, name) ==
    Reply(r, [NoRes EXCEPT !.op = "createOrder", !.status = status, !.message = message,
                           !.name = name])

\* authMiddleware: req.user of a request by an authenticated caller holds the
\* caller's id, which the handlers read as req.user.id, and the caller's role.
AuthMiddleware(caller) == [id |-> caller, role |-> RoleOf[caller]]

\* The test of requireAdmin = requireRole(['ADMIN']).
RequireAdmin(user) == user.role = "ADMIN"

(* ------------------------------- Init ---------------------------------- *)
Init ==
    /\ products = [p \in Products |->
                     [name |-> "Widget", isActive |-> TRUE, stockQuantity |-> InitProductStock,
                      price |-> 5000]]
    /\ variants = [v \in Variants |->
                     [productId |-> "P1", isActive |-> TRUE,
                      stockQuantity |-> InitVariantStock, price |-> 6000]]
    /\ orders = <<>>
    /\ orderItem = <<>>
    /\ clock = 1
    /\ pc = [r \in Reqs |-> "idle"]
    /\ req = [r \in Reqs |-> IdleReq]
    /\ res = [r \in Reqs |-> NoRes]
    /\ opCount = 0
    /\ preStock = <<>>
    /\ last = Null

(* ----------------------------- createOrder ----------------------------- *)
\* As CreateOrderStart, but with a schema that lets any quantity pass.
CreateOrderStartAnyQuantity(r, userId, items, ship, bill) ==
    /\ pc[r] = "idle"
    /\ opCount < MaxOps
    /\ opCount' = opCount + 1
    /\ LET owns(a) == a \in Addresses /\ AddressOwner[a] = userId
       IN  IF Len(items) = 0
           THEN Respond(r, "createOrder", 400, "Validation failed", 0)
           ELSE IF ~owns(ship)
           THEN Respond(r, "createOrder", 404, "Shipping address not found", 0)
           ELSE IF ~owns(bill)
           THEN Respond(r, "createOrder", 404, "Billing address not found", 0)
           ELSE /\ req' = [req EXCEPT ![r] =
                            [IdleReq EXCEPT !.op = "createOrder", !.userId = userId,
                                            !.items = items, !.shippingAddressId = ship,
                                            !.billingAddressId = bill, !.i = 1]]
                /\ pc' = [pc EXCEPT ![r] = "validate"]
                /\ UNCHANGED <<res, last>>
    /\ UNCHANGED <<db, clock, preStock>>

\* As CreateOrderStart, but with the billing address tested before the shipping
\* address.
CreateOrderStartBillingFirst(r, userId, items, ship, bill) ==
    /\ pc[r] = "idle"
    /\ opCount < MaxOps
    /\ opCount' = opCount + 1
    /\ LET owns(a) == a \in Addresses /\ AddressOwner[a] = userId
       IN  IF Len(items) = 0 \/ \E k \in 1..Len(items) : items[k].quantity < 1
           THEN Respond(r, "createOrder", 400, "Validation failed", 0)
           ELSE IF ~owns(bill)
           THEN Respond(r, "createOrder", 404, "Billing address not found", 0)
           ELSE IF ~owns(ship)
           THEN Respond(r, "createOrder", 404, "Shipping address not found", 0)
           ELSE /\ req' = [req EXCEPT ![r] =
                            [IdleReq EXCEPT !.op = "createOrder", !.userId = userId,
                                            !.items = items, !.shippingAddressId = ship,
                                            !.billingAddressId = bill, !.i = 1]]
                /\ pc' = [pc EXCEPT ![r] = "validate"]
                /\ UNCHANGED <<res, last>>
    /\ UNCHANGED <<db, clock, preStock>>

\* As CreateOrderStart, but with address lookups by id alone, whoever the owner.
CreateOrderStartAnyOwner(r, userId, items, ship, bill) ==
    /\ pc[r] = "idle"
    /\ opCount < MaxOps
    /\ opCount' = opCount + 1
    /\ LET owns(a) == a \in Addresses
       IN  IF Len(items) = 0 \/ \E k \in 1..Len(items) : items[k].quantity < 1
           THEN Respond(r, "createOrder", 400, "Validation failed", 0)
           ELSE IF ~owns(ship)
           THEN Respond(r, "createOrder", 404, "Shipping address not found", 0)
           ELSE IF ~owns(bill)
           THEN Respond(r, "createOrder", 404, "Billing address not found", 0)
           ELSE /\ req' = [req EXCEPT ![r] =
                            [IdleReq EXCEPT !.op = "createOrder", !.userId = userId,
                                            !.items = items, !.shippingAddressId = ship,
                                            !.billingAddressId = bill, !.i = 1]]
                /\ pc' = [pc EXCEPT ![r] = "validate"]
                /\ UNCHANGED <<res, last>>
    /\ UNCHANGED <<db, clock, preStock>>

\* createOrderSchema.parse (at least one item, every quantity positive) and the
\* two address lookups.
CreateOrderStart(r, userId, items, ship, bill) ==
    /\ pc[r] = "idle"
    /\ opCount < MaxOps
    /\ opCount' = opCount + 1
    /\ LET owns(a) == a \in Addresses /\ AddressOwner[a] = userId
       IN  IF Len(items) = 0 \/ \E k \in 1..Len(items) : items[k].quantity < 1
           THEN Respond(r, "createOrder", 400, "Validation failed", 0)
           ELSE IF ~owns(ship)
           THEN Respond(r, "createOrder", 404, "Shipping address not found", 0)
           ELSE IF ~owns(bill)
           THEN Respond(r, "createOrder", 404, "Billing address not found", 0)
           ELSE /\ req' = [req EXCEPT ![r] =
                            [IdleReq EXCEPT !.op = "createOrder", !.userId = userId,
                                            !.items = items, !.shippingAddressId = ship,
                                            !.billingAddressId = bill, !.i = 1]]
                /\ pc' = [pc EXCEPT ![r] = "validate"]
                /\ UNCHANGED <<res, last>>
    /\ UNCHANGED <<db, clock, preStock>>

\* The variants a product lookup includes for an item: those of the product whose
\* id is the item's variant id.
IncludedVariants(item) ==
    IF item.variantId = Null THEN {}
    ELSE {v \in Variants : v = item.variantId /\ variants[v].productId = item.productId}

\* As AvailableStock, but always the stock of the product.
AvailableStockOfProduct(item) == products[item.productId].stockQuantity

\* Stock the validation loop compares the quantity with
\* (`variants?.[0]?.stockQuantity || 0`: 0 when no variant is included).
AvailableStock(item) ==
    IF item.variantId # Null
    THEN LET vs == IncludedVariants(item)
         IN  IF vs = {} THEN 0 ELSE variants[CHOOSE v \in vs : TRUE].stockQuantity
    ELSE products[item.productId].stockQuantity

\* Price of one unit (`variants?.[0]?.price || 0`).
UnitPrice(item) ==
    IF item.variantId # Null
    THEN LET vs == IncludedVariants(item)
         IN  IF vs = {} THEN 0 ELSE variants[CHOOSE v \in vs : TRUE].price
    ELSE products[item.productId].price

\* As ValidateItem, but without the test of isActive.
ValidateItemSkipsActive(r) ==
    /\ pc[r] = "validate"
    /\ LET item == req[r].items[req[r].i]
       IN  IF item.productId \notin DOMAIN products
           THEN RespondNaming(r, 404, "Product not found", item.productId)
           ELSE IF AvailableStock(item) < item.quantity
           THEN RespondNaming(r, 400, "Insufficient stock", products[item.productId].name)
           ELSE LET unitPrice == UnitPrice(item)
                    itemTotal == unitPrice * item.quantity
                    row == [productId |-> item.productId, variantId |-> item.variantId,
                            quantity |-> item.quantity, unitPrice |-> unitPrice,
                            totalPrice |-> itemTotal]
                IN  /\ req' = [req EXCEPT ![r].orderItems = Append(@, row),
                                          ![r].subtotal = @ + itemTotal,
                                          ![r].i = @ + 1]
                    /\ pc' = [pc EXCEPT ![r] =
                                IF req[r].i = Len(req[r].items) THEN "createTx" ELSE "validate"]
                    /\ UNCHANGED <<res, last>>
    /\ UNCHANGED <<db, clock, opCount, preStock>>

\* One pass of the validation loop: reads the product of item i as committed now.
ValidateItem(r) ==
    /\ pc[r] = "validate"
    /\ LET item == req[r].items[req[r].i]
       IN  IF item.productId \notin DOMAIN products
           THEN RespondNaming(r, 404, "Product not found", item.productId)
           ELSE IF ~products[item.productId].isActive
           THEN RespondNaming(r, 400, "Product is not available",
                              products[item.productId].name)
           ELSE IF AvailableStock(item) < item.quantity
           THEN RespondNaming(r, 400, "Insufficient stock", products[item.productId].name)
           ELSE LET unitPrice == UnitPrice(item)
                    itemTotal == unitPrice * item.quantity
                    row == [productId |-> item.productId, variantId |-> item.variantId,
                            quantity |-> item.quantity, unitPrice |-> unitPrice,
                            totalPrice |-> itemTotal]
                IN  /\ req' = [req EXCEPT ![r].orderItems = Append(@, row),
                                          ![r].subtotal = @ + itemTotal,
                                          ![r].i = @ + 1]
                    /\ pc' = [pc EXCEPT ![r] =
                                IF req[r].i = Len(req[r].items) THEN "createTx" ELSE "validate"]
                    /\ UNCHANGED <<res, last>>
    /\ UNCHANGED <<db, clock, opCount, preStock>>

\* As TaxAmount, but taxing the shipping fee too.
TaxAmountWithShipping(subtotal) ==
    ((subtotal + (IF subtotal > FreeShippingOver THEN 0 ELSE FlatShipping)) * TaxPercent)
        \div 100

\* `subtotal * 0.1`. The prices of the catalog are whole multiples of ten cents, so
\* a tenth of a subtotal is a whole number of cents.
TaxAmount(subtotal) == (subtotal * TaxPercent) \div 100

\* As ShippingAmount, but free from the threshold on.
ShippingAmountFromThreshold(subtotal) ==
    IF subtotal >= FreeShippingOver THEN 0 ELSE FlatShipping

\* `subtotal > 100 ? 0 : 10`.
ShippingAmount(subtotal) == IF subtotal > FreeShippingOver THEN 0 ELSE FlatShipping

\* As NewOrder, but of an order that starts out confirmed.
NewOrderConfirmed(r) ==
    LET subtotal == req[r].subtotal
    IN  [userId |-> req[r].userId, status |-> "CONFIRMED", subtotal |-> subtotal,
         taxAmount |-> TaxAmount(subtotal), shippingAmount |-> ShippingAmount(subtotal),
         discountAmount |-> 0,
         totalAmount |-> subtotal + TaxAmount(subtotal) + ShippingAmount(subtotal),
         shippingAddress |-> req[r].shippingAddressId,
         billingAddress |-> req[r].billingAddressId,
         paymentStatus |-> "PENDING", trackingNumber |-> Null, notes |-> Null,
         shippedAt |-> 0, deliveredAt |-> 0, orderNumber |-> Len(orders) + 1]

\* As NewOrder, but with a total that leaves the tax out.
NewOrderTotalWithoutTax(r) ==
    LET subtotal == req[r].subtotal
    IN  [userId |-> req[r].userId, status |-> "PENDING", subtotal |-> subtotal,
         taxAmount |-> TaxAmount(subtotal), shippingAmount |-> ShippingAmount(subtotal),
         discountAmount |-> 0,
         totalAmount |-> subtotal + ShippingAmount(subtotal),
         shippingAddress |-> req[r].shippingAddressId,
         billingAddress |-> req[r].billingAddressId,
         paymentStatus |-> "PENDING", trackingNumber |-> Null, notes |-> Null,
         shippedAt |-> 0, deliveredAt |-> 0, orderNumber |-> Len(orders) + 1]

\* The order row createOrder writes. The generated order number, unique by time
\* and random suffix, is the number of orders so far plus one.
NewOrder(r) ==
    LET subtotal == req[r].subtotal
    IN  [userId |-> req[r].userId, status |-> "PENDING", subtotal |-> subtotal,
         taxAmount |-> TaxAmount(subtotal), shippingAmount |-> ShippingAmount(subtotal),
         discountAmount |-> 0,
         totalAmount |-> subtotal + TaxAmount(subtotal) + ShippingAmount(subtotal),
         shippingAddress |-> req[r].shippingAddressId,
         billingAddress |-> req[r].billingAddressId,
         paymentStatus |-> "PENDING", trackingNumber |-> Null, notes |-> Null,
         shippedAt |-> 0, deliveredAt |-> 0, orderNumber |-> Len(orders) + 1]

\* As ProductQty, but counting the rows with a variant id too.
ProductQtyAnyRow(rows, p) ==
    SumQuantity(SelectSeq(rows, LAMBDA row : row.productId = p))

\* Quantity the rows decrement from product p (rows without a variant id).
ProductQty(rows, p) ==
    SumQuantity(SelectSeq(rows, LAMBDA row : row.variantId = Null /\ row.productId = p))

\* Quantity the rows decrement from variant v.
VariantQty(rows, v) ==
    SumQuantity(SelectSeq(rows, LAMBDA row : row.variantId = v))

\* Stock levels after a set of per-item increments (sign = 1) or decrements
\* (sign = -1) is applied.
ProductsAfter(rows, sign) ==
    [p \in Products |->
        [products[p] EXCEPT !.stockQuantity = @ + sign * ProductQty(rows, p)]]

VariantsAfter(rows, sign) ==
    [v \in Variants |->
        [variants[v] EXCEPT !.stockQuantity = @ + sign * VariantQty(rows, v)]]

\* The rows tx.orderItem.create writes for order id.
ItemRows(id, rows) ==
    [k \in 1..Len(rows) |->
        [orderId |-> id, productId |-> rows[k].productId, variantId |-> rows[k].variantId,
         quantity |-> rows[k].quantity, unitPrice |-> rows[k].unitPrice,
         totalPrice |-> rows[k].totalPrice]]

\* As CreateOrderTransaction, but with the stock decrements issued on the prisma
\* client after the transaction of the order row and the item rows has committed.
CreateOrderStockOutsideTx(r) ==
    \/ /\ pc[r] = "createTx"
       /\ orders' = Append(orders, NewOrder(r))
       /\ orderItem' = orderItem \o ItemRows(Len(orders) + 1, req[r].orderItems)
       /\ preStock' = Append(preStock,
              [product |-> [p \in Products |-> products[p].stockQuantity],
               variant |-> [v \in Variants |-> variants[v].stockQuantity]])
       /\ req' = [req EXCEPT ![r].id = Len(orders) + 1]
       /\ pc' = [pc EXCEPT ![r] = "createStock"]
       /\ UNCHANGED <<products, variants, clock, res, opCount, last>>
    \/ /\ pc[r] = "createStock"
       /\ products' = ProductsAfter(req[r].orderItems, -1)
       /\ variants' = VariantsAfter(req[r].orderItems, -1)
       /\ Reply(r, [NoRes EXCEPT !.op = "createOrder", !.status = 201,
                                 !.message = orders[req[r].id].status,
                                 !.orderId = req[r].id, !.email = "orderConfirmation"])
       /\ UNCHANGED <<orders, orderItem, clock, opCount, preStock>>

\* createOrder's prisma.$transaction: the order row, its item rows and the stock
\* decrements become visible to other requests together, at the commit; then the
\* confirmation and the 201 response.
CreateOrderTransaction(r) ==
    /\ pc[r] = "createTx"
    /\ LET id == Len(orders) + 1
       IN  /\ orders' = Append(orders, NewOrder(r))
           /\ orderItem' = orderItem \o ItemRows(id, req[r].orderItems)
           /\ products' = ProductsAfter(req[r].orderItems, -1)
           /\ variants' = VariantsAfter(req[r].orderItems, -1)
           /\ preStock' = Append(preStock,
                  [product |-> [p \in Products |-> products[p].stockQuantity],
                   variant |-> [v \in Variants |-> variants[v].stockQuantity]])
           /\ Reply(r, [NoRes EXCEPT !.op = "createOrder", !.status = 201,
                                     !.message = NewOrder(r).status, !.orderId = id,
                                     !.email = "orderConfirmation"])
    /\ UNCHANGED <<clock, opCount>>

\* createOrder when the awaited sendOrderConfirmationEmail rejects: the
\* transaction has committed, the rejection leaves the handler through
\* asyncHandler's catch and the error handler answers 500.
CreateOrderNotifyRejects(r) ==
    /\ pc[r] = "createTx"
    /\ LET id == Len(orders) + 1
       IN  /\ orders' = Append(orders, NewOrder(r))
           /\ orderItem' = orderItem \o ItemRows(id, req[r].orderItems)
           /\ products' = ProductsAfter(req[r].orderItems, -1)
           /\ variants' = VariantsAfter(req[r].orderItems, -1)
           /\ preStock' = Append(preStock,
                  [product |-> [p \in Products |-> products[p].stockQuantity],
                   variant |-> [v \in Variants |-> variants[v].stockQuantity]])
           /\ Respond(r, "createOrder", 500, "Internal Server Error", 0)
    /\ UNCHANGED <<clock, opCount>>

\* As CreateOrderFail, but with the confirmation sent from inside the transaction
\* that then rolls back.
CreateOrderFailNotified(r) ==
    /\ pc[r] = "createTx"
    /\ Reply(r, [NoRes EXCEPT !.op = "createOrder", !.status = 500,
                              !.message = "Internal Server Error",
                              !.email = "orderConfirmation"])
    /\ UNCHANGED <<db, clock, opCount, preStock>>

\* A statement of the transaction fails (the database is unreachable, the order
\* number is taken): the transaction rolls back and the error handler answers.
CreateOrderFail(r) ==
    /\ pc[r] = "createTx"
    /\ Respond(r, "createOrder", 500, "Internal Server Error", 0)
    /\ UNCHANGED <<db, clock, opCount, preStock>>

(* ----------------------------- cancelOrder ------------------------------ *)
\* As ReadOrder, but without `include: items`.
ReadOrderNoItems(id) ==
    [id |-> id, status |-> orders[id].status, items |-> <<>>,
     shippedAt |-> orders[id].shippedAt, deliveredAt |-> orders[id].deliveredAt]

\* What findFirst / findUnique return for order id: the row and its item rows.
ReadOrder(id) ==
    [id |-> id, status |-> orders[id].status, items |-> ItemsOf(id),
     shippedAt |-> orders[id].shippedAt, deliveredAt |-> orders[id].deliveredAt]

\* As Cancellable, but refusing only an order that has been shipped or delivered.
CancellableUnlessSent(status) == status \notin {"SHIPPED", "DELIVERED"}

\* As Cancellable, but refusing only an order that is cancelled already.
CancellableUnlessCancelled(status) == status # "CANCELLED"

\* The statuses in which cancelOrder goes on.
Cancellable(status) == status = "PENDING" \/ status = "CONFIRMED"

\* As CancelOrderStart, but with the order looked up by id alone.
CancelOrderStartAnyOwner(r, userId, id) ==
    /\ pc[r] = "idle"
    /\ opCount < MaxOps
    /\ opCount' = opCount + 1
    /\ IF id \notin 1..Len(orders)
       THEN Respond(r, "cancelOrder", 404, "Order not found", id)
       ELSE IF ~Cancellable(orders[id].status)
       THEN Respond(r, "cancelOrder", 400, "Order cannot be cancelled at this stage", id)
       ELSE /\ req' = [req EXCEPT ![r] =
                        [IdleReq EXCEPT !.op = "cancelOrder", !.userId = userId, !.id = id,
                                        !.order = ReadOrder(id)]]
            /\ pc' = [pc EXCEPT ![r] = "cancelTx"]
            /\ UNCHANGED <<res, last>>
    /\ UNCHANGED <<db, clock, preStock>>

\* The lookup of the caller's order and the status precondition.
CancelOrderStart(r, userId, id) ==
    /\ pc[r] = "idle"
    /\ opCount < MaxOps
    /\ opCount' = opCount + 1
    /\ IF ~(id \in 1..Len(orders) /\ orders[id].userId = userId)
       THEN Respond(r, "cancelOrder", 404, "Order not found", id)
       ELSE IF ~Cancellable(orders[id].status)
       THEN Respond(r, "cancelOrder", 400, "Order cannot be cancelled at this stage", id)
       ELSE /\ req' = [req EXCEPT ![r] =
                        [IdleReq EXCEPT !.op = "cancelOrder", !.userId = userId, !.id = id,
                                        !.order = ReadOrder(id)]]
            /\ pc' = [pc EXCEPT ![r] = "cancelTx"]
            /\ UNCHANGED <<res, last>>
    /\ UNCHANGED <<db, clock, preStock>>

\* As CancelOrderTransaction, but without the update of the order's status.
CancelOrderRestoresOnly(r) ==
    /\ pc[r] = "cancelTx"
    /\ products' = ProductsAfter(req[r].order.items, 1)
    /\ variants' = VariantsAfter(req[r].order.items, 1)
    /\ Respond(r, "cancelOrder", 200, "Order cancelled successfully", req[r].id)
    /\ UNCHANGED <<orders, orderItem, clock, opCount, preStock>>

\* As CancelOrderTransaction, but with the status updated on the prisma client
\* before the transaction of the stock increments.
CancelOrderStatusOutsideTx(r) ==
    \/ /\ pc[r] = "cancelTx"
       /\ orders' = [orders EXCEPT ![req[r].id].status = "CANCELLED"]
       /\ pc' = [pc EXCEPT ![r] = "cancelStock"]
       /\ UNCHANGED <<products, variants, orderItem, clock, req, res, opCount, preStock, last>>
    \/ /\ pc[r] = "cancelStock"
       /\ products' = ProductsAfter(req[r].order.items, 1)
       /\ variants' = VariantsAfter(req[r].order.items, 1)
       /\ Respond(r, "cancelOrder", 200, "Order cancelled successfully", req[r].id)
       /\ UNCHANGED <<orders, orderItem, clock, opCount, preStock>>

\* As CancelOrderTransaction, but deleting the item rows of the cancelled order.
CancelOrderDeletesItems(r) ==
    /\ pc[r] = "cancelTx"
    /\ orders' = [orders EXCEPT ![req[r].id].status = "CANCELLED"]
    /\ orderItem' = SelectSeq(orderItem, LAMBDA row : row.orderId # req[r].id)
    /\ products' = ProductsAfter(req[r].order.items, 1)
    /\ variants' = VariantsAfter(req[r].order.items, 1)
    /\ Respond(r, "cancelOrder", 200, "Order cancelled successfully", req[r].id)
    /\ UNCHANGED <<clock, opCount, preStock>>

\* cancelOrder's prisma.$transaction: the status becomes CANCELLED and the stock
\* of every item the lookup returned is incremented, visible together at the commit.
CancelOrderTransaction(r) ==
    /\ pc[r] = "cancelTx"
    /\ orders' = [orders EXCEPT ![req[r].id].status = "CANCELLED"]
    /\ products' = ProductsAfter(req[r].order.items, 1)
    /\ variants' = VariantsAfter(req[r].order.items, 1)
    /\ Respond(r, "cancelOrder", 200, "Order cancelled successfully", req[r].id)
    /\ UNCHANGED <<orderItem, clock, opCount, preStock>>

\* A statement of the transaction fails: it rolls back.
CancelOrderFail(r) ==
    /\ pc[r] = "cancelTx"
    /\ Respond(r, "cancelOrder", 500, "Internal Server Error", req[r].id)
    /\ UNCHANGED <<db, clock, opCount, preStock>>

\* As OrNull, but keeping the empty string.
OrNullKeepsEmpty(value) == value

\* value || null: null for an omitted value and for the empty string, which is
\* falsy, and the value itself otherwise.
OrNull(value) == IF value = "" THEN Null ELSE value

(* -------------------------- updateOrderStatus -------------------------- *)
\* As UpdateOrderStatusStart, but refusing to move an order out of DELIVERED,
\* CANCELLED or REFUNDED.
UpdateOrderStatusStartForwardOnly(r, userId, id, status, trackingNumber, notes) ==
    /\ pc[r] = "idle"
    /\ opCount < MaxOps
    /\ opCount' = opCount + 1
    /\ IF id \notin 1..Len(orders)
       THEN Respond(r, "updateOrderStatus", 404, "Order not found", id)
       ELSE IF orders[id].status \in {"DELIVERED", "CANCELLED", "REFUNDED"}
       THEN Respond(r, "updateOrderStatus", 400, "Invalid status transition", id)
       ELSE /\ req' = [req EXCEPT ![r] =
                        [IdleReq EXCEPT !.op = "updateOrderStatus", !.userId = userId,
                                        !.id = id,
                                        !.order = [ReadOrder(id) EXCEPT !.items = <<>>],
                                        !.status = status,
                                        !.trackingNumber = trackingNumber,
                                        !.notes = notes]]
            /\ pc' = [pc EXCEPT ![r] = "updateWrite"]
            /\ UNCHANGED <<res, last>>
    /\ UNCHANGED <<db, clock, preStock>>

\* updateOrderStatusSchema.parse and the lookup of the order. The handler reads
\* nothing of req.user; userId is the id the request carries there.
UpdateOrderStatusStart(r, userId, id, status, trackingNumber, notes) ==
    /\ pc[r] = "idle"
    /\ opCount < MaxOps
    /\ opCount' = opCount + 1
    /\ IF id \notin 1..Len(orders)
       THEN Respond(r, "updateOrderStatus", 404, "Order not found", id)
       ELSE /\ req' = [req EXCEPT ![r] =
                        [IdleReq EXCEPT !.op = "updateOrderStatus", !.userId = userId,
                                        !.id = id,
                                        !.order = [ReadOrder(id) EXCEPT !.items = <<>>],
                                        !.status = status,
                                        !.trackingNumber = trackingNumber,
                                        !.notes = notes]]
            /\ pc' = [pc EXCEPT ![r] = "updateWrite"]
            /\ UNCHANGED <<res, last>>
    /\ UNCHANGED <<db, clock, preStock>>

\* As UpdateOrderStatusWrite, but giving the items of the order back to stock
\* when the request's status is CANCELLED or REFUNDED.
UpdateOrderStatusRestoresStock(r) ==
    /\ pc[r] = "updateWrite"
    /\ LET id == req[r].id
           stamps == req[r].status \in {"SHIPPED", "DELIVERED"}
           back == IF req[r].status \in {"CANCELLED", "REFUNDED"} THEN 1 ELSE 0
       IN  /\ orders' = [orders EXCEPT
                  ![id].status = req[r].status,
                  ![id].trackingNumber = OrNull(req[r].trackingNumber),
                  ![id].notes = OrNull(req[r].notes),
                  ![id].shippedAt =
                      IF req[r].status = "SHIPPED" THEN clock ELSE req[r].order.shippedAt,
                  ![id].deliveredAt =
                      IF req[r].status = "DELIVERED" THEN clock ELSE req[r].order.deliveredAt]
           /\ products' = ProductsAfter(ItemsOf(id), back)
           /\ variants' = VariantsAfter(ItemsOf(id), back)
           /\ clock' = IF stamps THEN clock + 1 ELSE clock
           /\ Reply(r, [NoRes EXCEPT !.op = "updateOrderStatus", !.status = 200,
                                     !.message = req[r].status, !.orderId = id,
                                     !.email = "orderStatusUpdate"])
    /\ UNCHANGED <<orderItem, opCount, preStock>>

\* As UpdateOrderStatusWrite, but writing no timestamp (null) where the request's
\* status is not the timestamp's own.
UpdateOrderStatusDropsStamps(r) ==
    /\ pc[r] = "updateWrite"
    /\ LET id == req[r].id
           stamps == req[r].status \in {"SHIPPED", "DELIVERED"}
       IN  /\ orders' = [orders EXCEPT
                  ![id].status = req[r].status,
                  ![id].trackingNumber = OrNull(req[r].trackingNumber),
                  ![id].notes = OrNull(req[r].notes),
                  ![id].shippedAt = IF req[r].status = "SHIPPED" THEN clock ELSE 0,
                  ![id].deliveredAt = IF req[r].status = "DELIVERED" THEN clock ELSE 0]
           /\ clock' = IF stamps THEN clock + 1 ELSE clock
           /\ Reply(r, [NoRes EXCEPT !.op = "updateOrderStatus", !.status = 200,
                                     !.message = req[r].status, !.orderId = id,
                                     !.email = "orderStatusUpdate"])
    /\ UNCHANGED <<products, variants, orderItem, opCount, preStock>>

\* prisma.order.update with the data computed from the request and from the row
\* read at the start; then the notification and the response.
UpdateOrderStatusWrite(r) ==
    /\ pc[r] = "updateWrite"
    /\ LET id == req[r].id
           stamps == req[r].status \in {"SHIPPED", "DELIVERED"}
       IN  /\ orders' = [orders EXCEPT
                  ![id].status = req[r].status,
                  ![id].trackingNumber = OrNull(req[r].trackingNumber),
                  ![id].notes = OrNull(req[r].notes),
                  ![id].shippedAt =
                      IF req[r].status = "SHIPPED" THEN clock ELSE req[r].order.shippedAt,
                  ![id].deliveredAt =
                      IF req[r].status = "DELIVERED" THEN clock ELSE req[r].order.deliveredAt]
           /\ clock' = IF stamps THEN clock + 1 ELSE clock
           /\ Reply(r, [NoRes EXCEPT !.op = "updateOrderStatus", !.status = 200,
                                     !.message = req[r].status, !.orderId = id,
                                     !.email = "orderStatusUpdate"])
    /\ UNCHANGED <<products, variants, orderItem, opCount, preStock>>

\* updateOrderStatus when the awaited sendOrderStatusUpdateEmail rejects: the
\* update has committed and the error handler answers 500.
UpdateOrderStatusNotifyRejects(r) ==
    /\ pc[r] = "updateWrite"
    /\ LET id == req[r].id
           stamps == req[r].status \in {"SHIPPED", "DELIVERED"}
       IN  /\ orders' = [orders EXCEPT
                  ![id].status = req[r].status,
                  ![id].trackingNumber = OrNull(req[r].trackingNumber),
                  ![id].notes = OrNull(req[r].notes),
                  ![id].shippedAt =
                      IF req[r].status = "SHIPPED" THEN clock ELSE req[r].order.shippedAt,
                  ![id].deliveredAt =
                      IF req[r].status = "DELIVERED" THEN clock ELSE req[r].order.deliveredAt]
           /\ clock' = IF stamps THEN clock + 1 ELSE clock
           /\ Respond(r, "updateOrderStatus", 500, "Internal Server Error", id)
    /\ UNCHANGED <<products, variants, orderItem, opCount, preStock>>

(* ------------------------ getOrder, getOrderStatus ---------------------- *)
\* getOrder: findFirst by id and userId, then 404 or the order (of which the
\* response keeps the id and the status).
GetOrder(r, userId, id) ==
    /\ pc[r] = "idle"
    /\ opCount < MaxOps
    /\ opCount' = opCount + 1
    /\ IF ~(id \in 1..Len(orders) /\ orders[id].userId = userId)
       THEN Respond(r, "getOrder", 404, "Order not found", id)
       ELSE Respond(r, "getOrder", 200, orders[id].status, id)
    /\ UNCHANGED <<db, clock, preStock>>

\* getOrderStatus: the same lookup with the status projection.
GetOrderStatus(r, userId, id) ==
    /\ pc[r] = "idle"
    /\ opCount < MaxOps
    /\ opCount' = opCount + 1
    /\ IF ~(id \in 1..Len(orders) /\ orders[id].userId = userId)
       THEN Respond(r, "getOrderStatus", 404, "Order not found", id)
       ELSE Respond(r, "getOrderStatus", 200, orders[id].status, id)
    /\ UNCHANGED <<db, clock, preStock>>

(* ----------------------------- deleteProduct ---------------------------- *)
\* The lookup of the product.
DeleteProductStart(r, id) ==
    /\ pc[r] = "idle"
    /\ opCount < MaxOps
    /\ opCount' = opCount + 1
    /\ IF id \notin DOMAIN products
       THEN Respond(r, "deleteProduct", 404, "Product not found", 0)
       ELSE /\ req' = [req EXCEPT ![r] =
                        [IdleReq EXCEPT !.op = "deleteProduct", !.productId = id]]
            /\ pc' = [pc EXCEPT ![r] = "deleteWrite"]
            /\ UNCHANGED <<res, last>>
    /\ UNCHANGED <<db, clock, preStock>>

\* The soft delete: prisma.product.update sets isActive to false; then the response.
DeleteProductWrite(r) ==
    /\ pc[r] = "deleteWrite"
    /\ products' = [products EXCEPT ![req[r].productId].isActive = FALSE]
    /\ Respond(r, "deleteProduct", 200, "Product deleted successfully", 0)
    /\ UNCHANGED <<variants, orders, orderItem, clock, opCount, preStock>>

(* ------------------------------ the end of a request ------------------- *)
Return(r) ==
    /\ pc[r] = "done"
    /\ pc' = [pc EXCEPT ![r] = "idle"]
    /\ req' = [req EXCEPT ![r] = IdleReq]
    /\ res' = [res EXCEPT ![r] = NoRes]
    /\ UNCHANGED <<db, clock, opCount, preStock, last>>

\* A request arrives: a createOrder, a cancelOrder or an updateOrderStatus of the
\* administrator that carries a tracking number and notes out of the given sets.
Arrives(r, trackingNumbers, notes) ==
    \/ \E items \in ItemLists, ship \in AddressInputs, bill \in AddressInputs :
          CreateOrderStart(r, Buyer, items, ship, bill)
    \/ \E u \in Users, id \in 1..MaxOps : CancelOrderStart(r, u, id)
    \/ \E id \in 1..MaxOps, status \in OrderStatuses, t \in trackingNumbers, n \in notes :
          UpdateOrderStatusStart(r, Staff, id, status, t, n)

\* A request in flight runs to its next await.
Step(r) ==
    \/ ValidateItem(r)
    \/ CreateOrderTransaction(r)
    \/ CreateOrderFail(r)
    \/ CancelOrderTransaction(r)
    \/ CancelOrderFail(r)
    \/ UpdateOrderStatusWrite(r)
    \/ Return(r)

\* Requests overlap freely; the status updates carry neither tracking number nor
\* notes.
Next == \E r \in Reqs : Arrives(r, {Null}, {Null}) \/ Step(r)

Spec == Init /\ [][Next]_vars

\* No other request is in flight.
Quiet(r) == \A q \in Reqs \ {r} : pc[q] \in {"idle", "done"}

\* Requests run one at a time.
SeqNext ==
    \E r \in Reqs : (Quiet(r) /\ Arrives(r, TrackingInputs, NotesInputs)) \/ Step(r)

SeqSpec == Init /\ [][SeqNext]_vars

(* ---------------- createOrder requests racing for the same stock -------- *)
\* Every request is a createOrder of one line.
RaceStart(r) == \E item \in ItemInputs : CreateOrderStart(r, Buyer, <<item>>, "a1", "a1")

RaceNext ==
    \E r \in Reqs :
        \/ RaceStart(r)
        \/ ValidateItem(r)
        \/ CreateOrderTransaction(r)
        \/ CreateOrderFail(r)
        \/ Return(r)

RaceSpec == Init /\ [][RaceNext]_vars

\* The item of a request for one unit of product P1.
OneUnit == [productId |-> "P1", variantId |-> Null, quantity |-> 1]

\* Every request is a createOrder for one unit of product P1.
UnitStart(r) == CreateOrderStart(r, Buyer, <<OneUnit>>, "a1", "a1")

UnitRaceNext ==
    \E r \in Reqs :
        \/ UnitStart(r)
        \/ ValidateItem(r)
        \/ CreateOrderTransaction(r)
        \/ CreateOrderFail(r)
        \/ Return(r)

UnitRaceSpec == Init /\ [][UnitRaceNext]_vars

(* ------------- createOrder requests that name what is not there --------- *)
\* Ids a request may name: those of the catalog and one that no row has.
ProductInputs == Products \cup {"P0"}
VariantInputs == Variants \cup {"V0", Null}

CatalogItemInputs ==
    [productId : ProductInputs, variantId : VariantInputs, quantity : 1..MaxQty]
CatalogItemLists == UNION {[1..n -> CatalogItemInputs] : n \in 1..MaxItems}

\* A createOrder of the buyer to an address of theirs, or a deleteProduct.
CatalogArrives(r) ==
    \/ \E items \in CatalogItemLists : CreateOrderStart(r, Buyer, items, "a1", "a1")
    \/ \E id \in ProductInputs : DeleteProductStart(r, id)

\* Requests run one at a time.
CatalogNext ==
    \E r \in Reqs :
        \/ Quiet(r) /\ CatalogArrives(r)
        \/ ValidateItem(r)
        \/ CreateOrderTransaction(r)
        \/ CreateOrderFail(r)
        \/ DeleteProductWrite(r)
        \/ Return(r)

CatalogSpec == Init /\ [][CatalogNext]_vars

(* ---------------- the life of an order that has been placed ------------- *)
\* The item of the order that is there from the start: one unit of variant V1.
PlacedItem == [productId |-> "P1", variantId |-> "V1", quantity |-> 1]

\* The database right after the buyer's createOrder of PlacedItem has committed
\* and has been answered, with every request slot free again; opCount counts the
\* requests that follow.
LifeInit ==
    LET unitPrice == 6000
        row == [productId |-> PlacedItem.productId, variantId |-> PlacedItem.variantId,
                quantity |-> PlacedItem.quantity, unitPrice |-> unitPrice,
                totalPrice |-> unitPrice * PlacedItem.quantity]
        subtotal == row.totalPrice
    IN  /\ products = [p \in Products |->
                 [name |-> "Widget", isActive |-> TRUE, stockQuantity |-> InitProductStock,
                      price |-> 5000]]
        /\ variants = [v \in Variants |->
                 [productId |-> "P1", isActive |-> TRUE,
                  stockQuantity |-> InitVariantStock - 1, price |-> unitPrice]]
        /\ orders = <<[userId |-> Buyer, status |-> "PENDING", subtotal |-> subtotal,
                       taxAmount |-> TaxAmount(subtotal),
                       shippingAmount |-> ShippingAmount(subtotal), discountAmount |-> 0,
                       totalAmount |-> subtotal + TaxAmount(subtotal) + ShippingAmount(subtotal),
                       shippingAddress |-> "a1", billingAddress |-> "a1",
                       paymentStatus |-> "PENDING", trackingNumber |-> Null, notes |-> Null,
                       shippedAt |-> 0, deliveredAt |-> 0, orderNumber |-> 1]>>
        /\ orderItem = ItemRows(1, <<row>>)
        /\ clock = 1
        /\ pc = [r \in Reqs |-> "idle"]
        /\ req = [r \in Reqs |-> IdleReq]
        /\ res = [r \in Reqs |-> NoRes]
        /\ opCount = 0
        /\ preStock = <<[product |-> [p \in Products |-> InitProductStock],
                         variant |-> [v \in Variants |-> InitVariantStock]]>>
        /\ last = Null

\* Requests run one at a time; the status updates carry neither tracking number
\* nor notes.
LifeNext == \E r \in Reqs : (Quiet(r) /\ Arrives(r, {Null}, {Null})) \/ Step(r)

\* The requests that follow the placing of the order.
LifeSpec == LifeInit /\ [][LifeNext]_vars

(* ------------- createOrder requests for a variant that may be inactive -- *)
\* The initial catalog, with the variant's isActive flag true or false.
VariantInit ==
    /\ products = [p \in Products |->
                     [name |-> "Widget", isActive |-> TRUE, stockQuantity |-> InitProductStock,
                      price |-> 5000]]
    /\ \E active \in BOOLEAN :
          variants = [v \in Variants |->
                        [productId |-> "P1", isActive |-> active,
                         stockQuantity |-> InitVariantStock, price |-> 6000]]
    /\ orders = <<>>
    /\ orderItem = <<>>
    /\ clock = 1
    /\ pc = [r \in Reqs |-> "idle"]
    /\ req = [r \in Reqs |-> IdleReq]
    /\ res = [r \in Reqs |-> NoRes]
    /\ opCount = 0
    /\ preStock = <<>>
    /\ last = Null

\* One-line createOrder requests, which may overlap.
VariantSpec == VariantInit /\ [][RaceNext]_vars

(* ------------ createOrder requests that fail more than one check ------- *)
\* Items of an existing or a missing product, without a variant.
CheckItemInputs == [productId : ProductInputs, variantId : {Null}, quantity : 1..MaxQty]
CheckItemLists == UNION {[1..n -> CheckItemInputs] : n \in 0..MaxItems}

\* A createOrder of the buyer with any of the item lists and address ids, or a
\* deleteProduct.
ChecksArrives(r) ==
    \/ \E items \in CheckItemLists, ship \in AddressInputs, bill \in AddressInputs :
          CreateOrderStart(r, Buyer, items, ship, bill)
    \/ \E id \in Products : DeleteProductStart(r, id)

\* Requests run one at a time.
ChecksNext ==
    \E r \in Reqs :
        \/ Quiet(r) /\ ChecksArrives(r)
        \/ ValidateItem(r)
        \/ CreateOrderTransaction(r)
        \/ CreateOrderFail(r)
        \/ DeleteProductWrite(r)
        \/ Return(r)

ChecksSpec == Init /\ [][ChecksNext]_vars

(* ------------- requests about the placed order by any caller ----------- *)
\* A cancelOrder, getOrder or getOrderStatus of any caller, or a status update of
\* the administrator.
OwnerArrives(r) ==
    \/ \E caller \in Callers, id \in 1..MaxOps :
          LET user == AuthMiddleware(caller)
          IN  \/ CancelOrderStart(r, user.id, id)
              \/ GetOrder(r, user.id, id)
              \/ GetOrderStatus(r, user.id, id)
    \/ \E id \in 1..MaxOps, status \in OrderStatuses :
          UpdateOrderStatusStart(r, Staff, id, status, Null, Null)

OwnerNext ==
    \E r \in Reqs :
        \/ OwnerArrives(r)
        \/ CancelOrderTransaction(r)
        \/ CancelOrderFail(r)
        \/ UpdateOrderStatusWrite(r)
        \/ Return(r)

OwnerSpec == LifeInit /\ [][OwnerNext]_vars

(* ------------- cancelOrder requests for the placed order, overlapping -- *)
\* A cancelOrder or a getOrderStatus of any caller; no request changes the
\* status of the order except a cancellation.
CancelRaceArrives(r) ==
    \E caller \in Callers, id \in 1..MaxOps :
        LET user == AuthMiddleware(caller)
        IN  \/ CancelOrderStart(r, user.id, id)
            \/ GetOrderStatus(r, user.id, id)

CancelRaceNext ==
    \E r \in Reqs :
        \/ CancelRaceArrives(r)
        \/ CancelOrderTransaction(r)
        \/ CancelOrderFail(r)
        \/ Return(r)

CancelRaceSpec == LifeInit /\ [][CancelRaceNext]_vars

(* ------- one client cancelling while the administrator updates -------- *)
\* The connection of the client, who sends cancelOrder requests, and the one of
\* the administrator, who sends status updates.
ClientConn == "r1"
AdminConn == "r2"

\* Each connection carries one request at a time; the two connections overlap.
CancelUpdateNext ==
    \/ \E caller \in Callers, id \in 1..MaxOps :
          CancelOrderStart(ClientConn, AuthMiddleware(caller).id, id)
    \/ \E id \in 1..MaxOps, status \in OrderStatuses :
          UpdateOrderStatusStart(AdminConn, Staff, id, status, Null, Null)
    \/ CancelOrderTransaction(ClientConn)
    \/ CancelOrderFail(ClientConn)
    \/ UpdateOrderStatusWrite(AdminConn)
    \/ \E r \in Reqs : Return(r)

CancelUpdateSpec == LifeInit /\ [][CancelUpdateNext]_vars

(* ------------ createOrder requests while a product is deactivated ----- *)
\* One-line createOrder requests and deleteProduct requests, overlapping.
DeactivateRaceNext ==
    \E r \in Reqs :
        \/ RaceStart(r)
        \/ \E id \in Products : DeleteProductStart(r, id)
        \/ ValidateItem(r)
        \/ CreateOrderTransaction(r)
        \/ CreateOrderFail(r)
        \/ DeleteProductWrite(r)
        \/ Return(r)

DeactivateRaceSpec == Init /\ [][DeactivateRaceNext]_vars

(* ---------- status updates that carry a tracking number and notes ----- *)
\* What a request may carry as tracking number and as notes: nothing, the empty
\* string or a text.
TrackingTexts == {Null, "", "TRK1"}
NotesTexts == {Null, "", "note"}

\* A status update of the placed order or a cancelOrder of its owner.
TrackingArrives(r) ==
    \/ \E status \in OrderStatuses, t \in TrackingTexts, n \in NotesTexts :
          UpdateOrderStatusStart(r, Staff, 1, status, t, n)
    \/ CancelOrderStart(r, Buyer, 1)

\* Requests run one at a time.
TrackingNext ==
    \E r \in Reqs :
        \/ Quiet(r) /\ TrackingArrives(r)
        \/ UpdateOrderStatusWrite(r)
        \/ CancelOrderTransaction(r)
        \/ CancelOrderFail(r)
        \/ Return(r)

TrackingSpec == LifeInit /\ [][TrackingNext]_vars

(* --------------- notifications that the mail service may refuse -------- *)
\* One-unit createOrder requests and status updates, overlapping; the awaited
\* notification call either returns or rejects.
NotifyNext ==
    \E r \in Reqs :
        \/ UnitStart(r)
        \/ \E id \in 1..MaxOps, status \in OrderStatuses :
              UpdateOrderStatusStart(r, Staff, id, status, Null, Null)
        \/ ValidateItem(r)
        \/ CreateOrderTransaction(r)
        \/ CreateOrderFail(r)
        \/ CreateOrderNotifyRejects(r)
        \/ UpdateOrderStatusWrite(r)
        \/ UpdateOrderStatusNotifyRejects(r)
        \/ Return(r)

NotifySpec == Init /\ [][NotifyNext]_vars

(* ------------------ requests of callers of either role ----------------- *)
\* router.use(authMiddleware), then the route: a createOrder for one unit of
\* product P1, or an updateOrderStatus, which router.put('/:id/status',
\* authMiddleware, ..) hands to the handler for every authenticated caller.
AuthArrives(r) ==
    \E caller \in Callers :
        LET user == AuthMiddleware(caller)
        IN  \/ \E ship \in AddressInputs, bill \in AddressInputs :
                  CreateOrderStart(r, user.id, <<OneUnit>>, ship, bill)
            \/ \E id \in 1..MaxOps, status \in OrderStatuses :
                  UpdateOrderStatusStart(r, user.id, id, status, Null, Null)

AuthNext ==
    \E r \in Reqs :
        \/ AuthArrives(r)
        \/ ValidateItem(r)
        \/ CreateOrderTransaction(r)
        \/ CreateOrderFail(r)
        \/ UpdateOrderStatusWrite(r)
        \/ Return(r)

AuthSpec == Init /\ [][AuthNext]_vars

(* ------------------------- what the claims speak of -------------------- *)
StockKeys == Products \cup Variants

\* The stock level a line draws on: the variant's when it names one, else the product's.
LineKey(line) == IF line.variantId # Null THEN line.variantId ELSE line.productId

\* Units the lines ask of stock key k.
LineQty(lines, k) ==
    LET n == Len(lines)
        upTo[i \in 0..n] ==
            IF i = 0 THEN 0
            ELSE upTo[i - 1] + (IF LineKey(lines[i]) = k THEN lines[i].quantity ELSE 0)
    IN  upTo[n]

StockOf(k) == IF k \in Variants THEN variants[k].stockQuantity ELSE products[k].stockQuantity

\* Request r took a step.
Moved(r) == pc'[r] # pc[r] \/ req'[r] # req[r]

\* Request r is answered in this step.
Answered(r) == pc[r] # "done" /\ pc'[r] = "done"

\* Every order has item rows and every item row has its order.
OrderRowsComplete ==
    /\ \A id \in 1..Len(orders) : ItemsOf(id) # <<>>
    /\ \A k \in 1..Len(orderItem) : orderItem[k].orderId \in 1..Len(orders)

\* Nothing but the stock quantities differs between the catalog tables now and next.
OnlyStockChanges ==
    /\ \A p \in Products : products'[p] = [products[p] EXCEPT !.stockQuantity = StockOf(p)']
    /\ \A v \in Variants : variants'[v] = [variants[v] EXCEPT !.stockQuantity = StockOf(v)']

(* -------------------------------- claims ------------------------------- *)
\* C1: under every interleaving of concurrent createOrder requests for the same
\* product or variant, no stock level is ever below zero.
C1_NoOversell == \A k \in StockKeys : StockOf(k) >= 0

\* C2: when N requests, each for one unit of a product with stock K < N, are all
\* there were and have all been answered (none by an infrastructure failure),
\* exactly K of them succeeded and every other one was rejected for insufficient
\* stock.
C2_ExactlyKSucceed ==
    (/\ \A r \in Reqs : pc[r] = "done" /\ res[r].status # 500
     /\ opCount = Cardinality(Reqs)
     /\ InitProductStock < Cardinality(Reqs))
    => /\ Cardinality({r \in Reqs : res[r].status = 201}) = InitProductStock
       /\ \A r \in Reqs : res[r].status # 201 =>
              res[r].status = 400 /\ res[r].message = "Insufficient stock"

\* The creation transaction of r would leave some stock level negative.
WouldGoNegative(r) ==
    \E k \in StockKeys : StockOf(k) - LineQty(req[r].items, k) < 0

\* C3: a creation transaction whose decrement would make a stock level negative
\* fails with an error and changes no order, item or stock.
C3_FailsVisibly ==
    [][\A r \in Reqs :
          (pc[r] = "createTx" /\ Answered(r) /\ WouldGoNegative(r))
          => (res'[r].status >= 400 /\ db' = db)]_vars

\* The step commits r's order: its row, one item row per line of the request and
\* the decrement of every line.
CreatedWhole(r) ==
    LET id == Len(orders) + 1
        lines == req[r].items
    IN  /\ res'[r].status = 201 /\ res'[r].orderId = id
        /\ Len(orders') = id
        /\ SubSeq(orders', 1, Len(orders)) = orders
        /\ orders'[id].userId = req[r].userId
        /\ Len(orderItem') = Len(orderItem) + Len(lines)
        /\ SubSeq(orderItem', 1, Len(orderItem)) = orderItem
        /\ \A k \in 1..Len(lines) :
              LET row == orderItem'[Len(orderItem) + k]
              IN  /\ row.orderId = id
                  /\ row.productId = lines[k].productId
                  /\ row.variantId = lines[k].variantId
                  /\ row.quantity = lines[k].quantity
        /\ \A k \in StockKeys : StockOf(k)' = StockOf(k) - LineQty(lines, k)

\* C4: every step of a createOrder request either changes no order, item or stock
\* (and is no success), or adds the order row with all its item rows and all its
\* stock decrements at once; no state shows an order without items.
C4_CreateAllOrNothing ==
    [][/\ \A r \in Reqs :
             (pc[r] \in {"validate", "createTx"} /\ Moved(r))
             => \/ db' = db /\ res'[r].status # 201
                \/ CreatedWhole(r)
       /\ OrderRowsComplete']_vars

\* An order has been committed by the request that has just been answered.
C4_Witness ==
    \E r \in Reqs :
        /\ pc[r] = "done" /\ res[r].op = "createOrder" /\ res[r].status = 201
        /\ Len(ItemsOf(res[r].orderId)) = 2
        /\ \E q \in Reqs : pc[q] = "done" /\ res[q].op = "createOrder" /\ res[q].status = 500

\* C5: a successful createOrder takes each line's quantity from the variant's stock
\* when the line names a variant and from the product's stock otherwise, and
\* changes no other stock level and nothing else of the catalog.
C5_ExactDecrement ==
    [][\A r \in Reqs :
          (pc[r] = "createTx" /\ Answered(r) /\ res'[r].status = 201)
          => /\ \A k \in StockKeys : StockOf(k)' = StockOf(k) - LineQty(req[r].items, k)
             /\ OnlyStockChanges]_vars

\* An order with a variant line of two units is committed: the variant has lost
\* two units and the parent product none.
C5_Witness ==
    /\ Len(orders) = 1
    /\ \E k \in 1..Len(orderItem) :
          orderItem[k].variantId = "V1" /\ orderItem[k].quantity = 2
    /\ Len(orderItem) = 1
    /\ variants["V1"].stockQuantity = InitVariantStock - 2
    /\ products["P1"].stockQuantity = InitProductStock

\* C6: when requests run one at a time, no stock level is below zero once the
\* requests have been answered, whatever createOrder and cancelOrder requests ran.
C6_SequentialNonNegative ==
    (\A r \in Reqs : pc[r] \in {"idle", "done"}) => \A k \in StockKeys : StockOf(k) >= 0

\* The level of stock key k that order id found when it was created.
PreStockOf(id, k) ==
    IF k \in Variants THEN preStock[id].variant[k] ELSE preStock[id].product[k]

\* C7: when a cancellation commits and the stock of an item of the order stands
\* where the order's creation left it, the stock returns to the level the order
\* found before it was created.
C7_CancelRestores ==
    [][\A r \in Reqs :
          (pc[r] = "cancelTx" /\ Answered(r) /\ res'[r].status = 200)
          => LET id == req[r].id
             IN  \A k \in StockKeys :
                    (/\ LineQty(ItemsOf(id), k) > 0
                     /\ StockOf(k) = PreStockOf(id, k) - LineQty(ItemsOf(id), k))
                    => StockOf(k)' = PreStockOf(id, k)]_vars

\* An order of two units of the variant, created, confirmed and then cancelled:
\* the stock is back at its level before the order.
C7_Witness ==
    \E r \in Reqs :
        /\ last = r
        /\ pc[r] = "done" /\ res[r].op = "cancelOrder" /\ res[r].status = 200
        /\ \E q \in Reqs \ {r} :
              /\ pc[q] = "done" /\ res[q].op = "updateOrderStatus"
              /\ res[q].status = 200 /\ res[q].message = "CONFIRMED"
        /\ Len(orders) = 1 /\ orders[1].status = "CANCELLED"
        /\ LineQty(ItemsOf(1), "V1") = 2
        /\ \A k \in StockKeys : StockOf(k) = PreStockOf(1, k)

\* Request r begins a cancelOrder of order id in this step.
CancelBegins(r, id) ==
    /\ pc[r] = "idle"
    /\ \/ pc'[r] = "cancelTx" /\ req'[r].id = id
       \/ pc'[r] = "done" /\ res'[r].op = "cancelOrder" /\ res'[r].orderId = id

\* The step answers r with an error and changes nothing in the database.
Rejected(r) == pc'[r] = "done" /\ res'[r].status >= 400 /\ db' = db

\* C8: a cancelOrder of an order whose status is neither PENDING nor CONFIRMED is
\* answered with an error and changes neither the order nor any stock level.
C8_CancelRejected ==
    [][\A r \in Reqs : \A id \in 1..Len(orders) :
          (CancelBegins(r, id) /\ orders[id].status \notin {"PENDING", "CONFIRMED"})
          => Rejected(r)]_vars

\* The owner's cancelOrder of a shipped order has been refused: the order is still
\* shipped and its stock still taken.
C8_Witness ==
    \E r \in Reqs :
        /\ pc[r] = "done" /\ res[r].op = "cancelOrder" /\ res[r].status = 400
        /\ res[r].orderId = 1 /\ Len(orders) = 1
        /\ orders[1].status = "SHIPPED"
        /\ \E k \in StockKeys : StockOf(k) < PreStockOf(1, k)

\* C9: a cancelOrder that begins right after a successful cancelOrder of the same
\* order is answered with an error and restores no stock a second time.
C9_SecondCancelRejected ==
    [][\A r \in Reqs : \A id \in 1..Len(orders) :
          (/\ CancelBegins(r, id)
           /\ last \in Reqs \ {r}
           /\ pc[last] = "done"
           /\ res[last].op = "cancelOrder" /\ res[last].status = 200
           /\ res[last].orderId = id)
          => Rejected(r)]_vars

\* The same order cancelled twice in a row: the first answer is a success, the
\* second an error, and the stock stands where it stood before the order.
C9_Witness ==
    \E r \in Reqs :
        /\ last = r /\ pc[r] = "done"
        /\ res[r].op = "cancelOrder" /\ res[r].status = 400 /\ res[r].orderId = 1
        /\ \E q \in Reqs \ {r} :
              /\ pc[q] = "done" /\ res[q].op = "cancelOrder"
              /\ res[q].status = 200 /\ res[q].orderId = 1
        /\ orders[1].userId = Buyer
        /\ \A k \in StockKeys : StockOf(k) = PreStockOf(1, k)

\* The step commits r's cancellation: the status and the increment of every item
\* of the order, and nothing else.
CancelledWhole(r) ==
    LET id == req[r].id
    IN  /\ res'[r].status = 200
        /\ orders' = [orders EXCEPT ![id].status = "CANCELLED"]
        /\ orderItem' = orderItem
        /\ \A k \in StockKeys : StockOf(k)' = StockOf(k) + LineQty(ItemsOf(id), k)
        /\ OnlyStockChanges

\* C10: every step of a cancelOrder transaction either changes no order and no
\* stock (and is no success), or sets the status to CANCELLED and increments the
\* stock of every item of the order at once.
C10_CancelAllOrNothing ==
    [][\A r \in Reqs :
          (pc[r] = "cancelTx" /\ Moved(r))
          => \/ db' = db /\ res'[r].status # 200
             \/ CancelledWhole(r)]_vars

\* A cancellation of the order failed and rolled back, and the next one has
\* committed: the order is cancelled and the stock of its two lines is back.
C10_Witness ==
    \E r \in Reqs : \E q \in Reqs \ {r} :
        /\ last = r
        /\ pc[r] = "done" /\ res[r].op = "cancelOrder" /\ res[r].status = 200
        /\ pc[q] = "done" /\ res[q].op = "cancelOrder" /\ res[q].status = 500
        /\ res[r].orderId = 1 /\ res[q].orderId = 1
        /\ orders[1].status = "CANCELLED"
        /\ Len(ItemsOf(1)) = 2
        /\ \A k \in StockKeys : LineQty(ItemsOf(1), k) = 1 /\ StockOf(k) = PreStockOf(1, k)

\* Request r writes an updateOrderStatus to status st of order id in this step.
StatusWritten(r, id, st) ==
    /\ pc[r] = "updateWrite" /\ Answered(r)
    /\ req[r].id = id /\ req[r].status = st

\* C11: shippedAt changes only in a status update that moves the order into
\* SHIPPED from another status; an update to SHIPPED of an order that is SHIPPED
\* already leaves shippedAt as it is.
C11_ShippedAtOnce ==
    [][\A id \in 1..Len(orders) :
          orders'[id].shippedAt # orders[id].shippedAt
          => /\ orders[id].status # "SHIPPED"
             /\ \E r \in Reqs : StatusWritten(r, id, "SHIPPED")]_vars

\* C12: deliveredAt changes only in a status update to DELIVERED of an order that
\* is not DELIVERED already; a repeated update to DELIVERED leaves it as it is.
C12_DeliveredAtOnce ==
    [][\A id \in 1..Len(orders) :
          orders'[id].deliveredAt # orders[id].deliveredAt
          => /\ orders[id].status # "DELIVERED"
             /\ \E r \in Reqs : StatusWritten(r, id, "DELIVERED")]_vars

\* C13: when requests run one at a time, an order's shippedAt changes in no step
\* but a status update to SHIPPED and its deliveredAt in no step but a status
\* update to DELIVERED (no other status update and no cancelOrder touches them),
\* and an order is created with both of them null.
C13_StampsOnlyOnMatch ==
    [][/\ \A id \in 1..Len(orders) :
             /\ orders'[id].shippedAt # orders[id].shippedAt
                => \E r \in Reqs : StatusWritten(r, id, "SHIPPED")
             /\ orders'[id].deliveredAt # orders[id].deliveredAt
                => \E r \in Reqs : StatusWritten(r, id, "DELIVERED")
       /\ \A id \in (Len(orders) + 1)..Len(orders') :
             orders'[id].shippedAt = 0 /\ orders'[id].deliveredAt = 0]_vars

\* The placed order was shipped, then set back to a cancellable status, and its
\* cancellation has just committed: it still carries the time it was shipped at,
\* and never got a delivery time.
C13_Witness ==
    \E r \in Reqs :
        /\ last = r /\ pc[r] = "done"
        /\ res[r].op = "cancelOrder" /\ res[r].status = 200 /\ res[r].orderId = 1
        /\ orders[1].status = "CANCELLED"
        /\ orders[1].shippedAt = 1 /\ clock = 2
        /\ orders[1].deliveredAt = 0

RECURSIVE SumTotalPrice(_)
\* Sum of the line totals of the rows.
SumTotalPrice(rows) ==
    IF rows = <<>> THEN 0 ELSE Head(rows).totalPrice + SumTotalPrice(Tail(rows))

\* The catalog's price of the thing a row names: the variant's when it names a
\* variant, else the product's.
CatalogPrice(row) ==
    IF row.variantId # Null THEN variants[row.variantId].price
    ELSE products[row.productId].price

RECURSIVE CatalogSubtotal(_)
\* What the rows cost at the catalog's prices.
CatalogSubtotal(rows) ==
    IF rows = <<>> THEN 0
    ELSE CatalogPrice(Head(rows)) * Head(rows).quantity + CatalogSubtotal(Tail(rows))

\* C14: in every reachable state every stored order has
\* total = subtotal + tax + shipping - discount, with a subtotal that is what its
\* items cost at the catalog's prices (no amount comes from the request).
C14_TotalInvariant ==
    \A id \in 1..Len(orders) :
        LET o == orders[id]
        IN  /\ o.totalAmount = o.subtotal + o.taxAmount + o.shippingAmount - o.discountAmount
            /\ o.subtotal = CatalogSubtotal(ItemsOf(id))

\* An order of two lines, one of the product and one of two units of the variant,
\* is stored and has gone through a status update since.
C14_Witness ==
    /\ Len(orders) = 1 /\ orders[1].status = "PROCESSING"
    /\ Len(ItemsOf(1)) = 2
    /\ orders[1].subtotal = 17000 /\ orders[1].totalAmount = 18700

C16_ShippingThreshold ==
    \A id \in 1..Len(orders) :
        LET o == orders[id]
        IN  /\ o.shippingAmount = 0 <=> o.subtotal > 10000
            /\ o.shippingAmount # 0 => o.shippingAmount = 1000
            /\ o.subtotal = 10000 => o.shippingAmount = 1000

\* Two orders are stored, one with a subtotal of exactly 100.00 that pays the flat
\* fee and one with a subtotal of 120.00 that ships free.
C16_Witness ==
    /\ \E id \in 1..Len(orders) :
          orders[id].subtotal = 10000 /\ orders[id].shippingAmount = 1000
    /\ \E id \in 1..Len(orders) :
          orders[id].subtotal = 12000 /\ orders[id].shippingAmount = 0

\* C17: every order item has lineTotal = unitPrice * quantity with a quantity that
\* is a positive whole number, and every order's subtotal is the sum of the line
\* totals of its items.
C17_LineTotals ==
    /\ \A k \in 1..Len(orderItem) :
          /\ orderItem[k].totalPrice = orderItem[k].unitPrice * orderItem[k].quantity
          /\ orderItem[k].quantity \in Nat \ {0}
    /\ \A id \in 1..Len(orders) : orders[id].subtotal = SumTotalPrice(ItemsOf(id))

\* An order of one unit of the product and two units of the variant is stored
\* (50.00 + 2 * 60.00), and a request with a quantity of 0 has been refused.
C17_Witness ==
    /\ \E id \in 1..Len(orders) :
          /\ orders[id].subtotal = 17000
          /\ \E k \in 1..Len(orderItem) :
                /\ orderItem[k].orderId = id /\ orderItem[k].quantity = 2
                /\ orderItem[k].unitPrice = 6000 /\ orderItem[k].totalPrice = 12000
    /\ \E r \in Reqs :
          /\ pc[r] = "done" /\ res[r].op = "createOrder"
          /\ res[r].status = 400 /\ res[r].message = "Validation failed"

\* The catalog's price under stock key k.
PriceOf(k) == IF k \in Variants THEN variants[k].price ELSE products[k].price

\* The item the validation loop of request r is at.
CurrentItem(r) == req[r].items[req[r].i]

\* The step takes request r's current item into its order at unit price p.
LineAccepted(r, p) ==
    /\ pc'[r] \in {"validate", "createTx"}
    /\ Len(req'[r].orderItems) = Len(req[r].orderItems) + 1
    /\ LET row == req'[r].orderItems[Len(req'[r].orderItems)]
       IN  /\ row.productId = CurrentItem(r).productId
           /\ row.variantId = CurrentItem(r).variantId
           /\ row.quantity = CurrentItem(r).quantity
           /\ row.unitPrice = p

\* C18: a pass of the validation loop over an item of an active product takes the
\* item at the price of the variant it names, or of the product when it names
\* none, if the stock of that same variant or product covers the quantity, and
\* refuses it for insufficient stock if it does not.
C18_VariantOrProduct ==
    [][\A r \in Reqs :
          (/\ pc[r] = "validate" /\ Moved(r)
           /\ CurrentItem(r).productId \in Products
           /\ products[CurrentItem(r).productId].isActive
           /\ LineKey(CurrentItem(r)) \in StockKeys)
          => LET k == LineKey(CurrentItem(r))
             IN  IF StockOf(k) >= CurrentItem(r).quantity
                 THEN LineAccepted(r, PriceOf(k))
                 ELSE /\ pc'[r] = "done" /\ res'[r].status = 400
                      /\ res'[r].message = "Insufficient stock"]_vars

\* With one unit of the product and two of the variant in stock, a request for two
\* units of the variant has passed validation at the variant's price, and a
\* request for two units of the product has been refused.
C18_Witness ==
    /\ products["P1"].stockQuantity = 1 /\ variants["V1"].stockQuantity = 2
    /\ \E r \in Reqs : \E q \in Reqs \ {r} :
          /\ pc[r] = "createTx" /\ Len(req[r].orderItems) = 1
          /\ req[r].orderItems[1].variantId = "V1"
          /\ req[r].orderItems[1].quantity = 2
          /\ req[r].orderItems[1].unitPrice = 6000
          /\ pc[q] = "done" /\ res[q].op = "createOrder"
          /\ res[q].status = 400 /\ res[q].message = "Insufficient stock"

\* The item names a variant that no row of the named product's variants has.
NamesMissingVariant(item) ==
    /\ item.variantId # Null
    /\ \/ item.variantId \notin Variants
       \/ variants[item.variantId].productId # item.productId

\* C19: a pass of the validation loop over an item of an active product that names
\* a variant which does not exist (or is not the product's) refuses the request
\* with a not-found error, which is not the insufficient-stock error, and changes
\* no order, item or stock.
C19_MissingVariantNotFound ==
    [][\A r \in Reqs :
          (/\ pc[r] = "validate" /\ Moved(r)
           /\ CurrentItem(r).productId \in Products
           /\ products[CurrentItem(r).productId].isActive
           /\ NamesMissingVariant(CurrentItem(r)))
          => /\ pc'[r] = "done"
             /\ res'[r].status = 404
             /\ res'[r].message # "Insufficient stock"
             /\ db' = db]_vars

\* C20: a pass of the validation loop over an item whose product does not exist
\* refuses the request with the not-found error, one over an item whose product is
\* inactive with the not-available error, neither changes an order, an item or a
\* stock level, and no order is committed before every item has had its pass.
C20_MissingOrInactiveProduct ==
    [][\A r \in Reqs :
          /\ (pc[r] = "validate" /\ Moved(r))
             => LET p == CurrentItem(r).productId
                IN  /\ p \notin Products
                       => /\ pc'[r] = "done" /\ res'[r].status = 404
                          /\ res'[r].message = "Product not found"
                          /\ db' = db
                    /\ (p \in Products /\ ~products[p].isActive)
                       => /\ pc'[r] = "done" /\ res'[r].status = 400
                          /\ res'[r].message = "Product is not available"
                          /\ db' = db
          /\ (req[r].op = "createOrder" /\ Moved(r) /\ db' # db)
             => /\ pc[r] = "createTx"
                /\ Len(req[r].orderItems) = Len(req[r].items)]_vars

\* One request for a product that is not in the catalog and one for the product,
\* deleted before, have been refused; there is no order and the stock is whole.
C20_Witness ==
    /\ \E r \in Reqs : \E q \in Reqs \ {r} :
          /\ pc[r] = "done" /\ res[r].op = "createOrder"
          /\ res[r].status = 404 /\ res[r].message = "Product not found"
          /\ pc[q] = "done" /\ res[q].op = "createOrder"
          /\ res[q].status = 400 /\ res[q].message = "Product is not available"
    /\ ~products["P1"].isActive
    /\ orders = <<>> /\ orderItem = <<>>
    /\ products["P1"].stockQuantity = InitProductStock
    /\ variants["V1"].stockQuantity = InitVariantStock

\* The item names a variant of the named product whose isActive flag is false.
NamesInactiveVariant(item) ==
    /\ item.variantId \in Variants
    /\ variants[item.variantId].productId = item.productId
    /\ ~variants[item.variantId].isActive

\* C21: a pass of the validation loop over an item that names an inactive variant
\* of an active product refuses the request with the not-available error and
\* changes no order, item or stock.
C21_InactiveVariantRejected ==
    [][\A r \in Reqs :
          (/\ pc[r] = "validate" /\ Moved(r)
           /\ CurrentItem(r).productId \in Products
           /\ products[CurrentItem(r).productId].isActive
           /\ NamesInactiveVariant(CurrentItem(r)))
          => /\ pc'[r] = "done"
             /\ res'[r].status = 400
             /\ res'[r].message = "Product is not available"
             /\ db' = db]_vars

\* C22: a pass of the validation loop over an item of an active product that asks
\* for more than the stock its variant, or its product when it names none, has at
\* that moment ends the request with the insufficient-stock error that carries the
\* product's name, and changes no order, item or stock, whatever items passed
\* before it.
C22_InsufficientStockRejected ==
    [][\A r \in Reqs :
          (/\ pc[r] = "validate" /\ Moved(r)
           /\ CurrentItem(r).productId \in Products
           /\ products[CurrentItem(r).productId].isActive
           /\ LineKey(CurrentItem(r)) \in StockKeys
           /\ StockOf(LineKey(CurrentItem(r))) < CurrentItem(r).quantity)
          => /\ pc'[r] = "done"
             /\ res'[r].op = "createOrder" /\ res'[r].status = 400
             /\ res'[r].message = "Insufficient stock"
             /\ res'[r].name = products[CurrentItem(r).productId].name
             /\ db' = db]_vars

\* A request has been refused for insufficient stock with the product's name, with
\* no order made and the stock as it was, and another request, whose first item
\* has passed, is at a second item that asks for two units of the product, which
\* has one.
C22_Witness ==
    /\ orders = <<>> /\ orderItem = <<>>
    /\ products["P1"].stockQuantity = InitProductStock
    /\ variants["V1"].stockQuantity = InitVariantStock
    /\ \E r \in Reqs : \E q \in Reqs \ {r} :
          /\ pc[q] = "done" /\ res[q].op = "createOrder" /\ res[q].status = 400
          /\ res[q].message = "Insufficient stock" /\ res[q].name = "Widget"
          /\ pc[r] = "validate" /\ req[r].i = 2 /\ Len(req[r].orderItems) = 1
          /\ CurrentItem(r).variantId = Null
          /\ CurrentItem(r).quantity > products["P1"].stockQuantity

\* Address id a resolves to an address of user u.
OwnedBy(a, u) == a \in Addresses /\ AddressOwner[a] = u

AnsweredWith(r, status, message) ==
    pc'[r] = "done" /\ res'[r].status = status /\ res'[r].message = message

\* What the checks on arrival owe a createOrder of user u with these inputs.
ArrivalOutcome(r, u, items, ship, bill) ==
    IF items = <<>> THEN AnsweredWith(r, 400, "Validation failed")
    ELSE IF ~OwnedBy(ship, u) THEN AnsweredWith(r, 404, "Shipping address not found")
    ELSE IF ~OwnedBy(bill, u) THEN AnsweredWith(r, 404, "Billing address not found")
    ELSE pc'[r] = "validate" /\ req'[r].items = items /\ req'[r].i = 1

\* C24: a createOrder is answered by the first check it fails: the empty item
\* list, then the shipping address, then the billing address on arrival, whatever
\* else is wrong with the request; then the items one at a time in list order, a
\* pass being reached only when every item before it has been taken, and each
\* item failing on a missing product before an inactive one and on an inactive
\* one before a lack of stock.
C24_FirstFailingCheck ==
    [][\A r \in Reqs :
          /\ (pc[r] = "idle" /\ pc'[r] # "idle")
             => \A items \in CheckItemLists, ship \in AddressInputs, bill \in AddressInputs :
                   CreateOrderStart(r, Buyer, items, ship, bill)
                   => ArrivalOutcome(r, Buyer, items, ship, bill)
          /\ (pc[r] = "validate" /\ Moved(r))
             => /\ Len(req[r].orderItems) = req[r].i - 1
                /\ LET item == CurrentItem(r)
                   IN  IF item.productId \notin Products
                       THEN AnsweredWith(r, 404, "Product not found")
                       ELSE IF ~products[item.productId].isActive
                       THEN AnsweredWith(r, 400, "Product is not available")
                       ELSE IF StockOf(LineKey(item)) < item.quantity
                       THEN AnsweredWith(r, 400, "Insufficient stock")
                       ELSE pc'[r] \in {"validate", "createTx"}]_vars

\* A request has been answered that the product is not available, and another is
\* at an item that asks for more units of the inactive product than it has.
C24_Witness ==
    /\ ~products["P1"].isActive
    /\ \E r \in Reqs : \E q \in Reqs \ {r} :
          /\ pc[q] = "done" /\ res[q].op = "createOrder" /\ res[q].status = 400
          /\ res[q].message = "Product is not available"
          /\ pc[r] = "validate" /\ Len(req[r].items) = 2
          /\ CurrentItem(r).productId = "P1"
          /\ CurrentItem(r).quantity > products["P1"].stockQuantity

\* C25: every order row that appears has status PENDING and payment status
\* PENDING, and every createOrder answered with 201 is told the status PENDING of
\* the order it has just made.
C25_CreatedPending ==
    [][/\ \A id \in 1..Len(orders') :
             id > Len(orders)
             => orders'[id].status = "PENDING" /\ orders'[id].paymentStatus = "PENDING"
       /\ \A r \in Reqs :
             (Answered(r) /\ res'[r].op = "createOrder" /\ res'[r].status = 201)
             => /\ res'[r].orderId = Len(orders) + 1
                /\ Len(orders') = Len(orders) + 1
                /\ res'[r].message = "PENDING"]_vars

\* A createOrder has just been answered with 201 and the status PENDING, next to
\* an earlier order whose status has been updated since.
C25_Witness ==
    /\ Len(orders) = 2
    /\ orders[1].status = "SHIPPED" /\ orders[2].status = "PENDING"
    /\ orders[2].paymentStatus = "PENDING"
    /\ \E r \in Reqs :
          /\ last = r /\ pc[r] = "done" /\ res[r].op = "createOrder"
          /\ res[r].status = 201 /\ res[r].orderId = 2 /\ res[r].message = "PENDING"

\* The statuses from which the order lifecycle draws no further transition.
TerminalStatuses == {"DELIVERED", "CANCELLED", "REFUNDED"}

\* C26 as stated: no step changes the status of an order whose status is
\* DELIVERED, CANCELLED or REFUNDED.
C26_TerminalForAll ==
    [][\A id \in 1..Len(orders) :
          orders[id].status \in TerminalStatuses
          => orders'[id].status = orders[id].status]_vars

\* C26, amended: DELIVERED, CANCELLED and REFUNDED are terminal for cancelOrder: a
\* cancelOrder that finds the order in one of them is refused and changes nothing.
\* A step that changes the status of an order in one of them is the write of a
\* status update, or the commit of a cancelOrder that had read the order as
\* PENDING or CONFIRMED.
C26_TerminalForCancel ==
    [][\A id \in 1..Len(orders) :
          /\ \A r \in Reqs :
                (CancelBegins(r, id) /\ orders[id].status \in TerminalStatuses)
                => Rejected(r)
          /\ (orders[id].status \in TerminalStatuses
               /\ orders'[id].status # orders[id].status)
             => \E r \in Reqs :
                   /\ Answered(r) /\ req[r].id = id
                   /\ \/ pc[r] = "updateWrite" /\ orders'[id].status = req[r].status
                      \/ /\ pc[r] = "cancelTx"
                         /\ req[r].order.status \in {"PENDING", "CONFIRMED"}]_vars

\* An order was delivered and a status update has since set it back to
\* PROCESSING; a cancelOrder of it, begun while it was delivered, was refused.
C26_Witness ==
    /\ orders[1].deliveredAt # 0 /\ orders[1].status = "PROCESSING"
    /\ \E r \in Reqs : \E q \in Reqs \ {r} :
          /\ last = r /\ pc[r] = "done" /\ res[r].op = "updateOrderStatus"
          /\ res[r].status = 200 /\ res[r].orderId = 1 /\ res[r].message = "PROCESSING"
          /\ pc[q] = "done" /\ res[q].op = "cancelOrder" /\ res[q].status = 400
          /\ res[q].orderId = 1

\* C27: an updateOrderStatus is refused on arrival only for an order that does not
\* exist; for an existing order, whatever its status, the write that follows
\* succeeds, leaves the order in the requested status and answers with it.
C27_AnyStatusAccepted ==
    [][\A r \in Reqs :
          /\ (pc[r] = "idle" /\ pc'[r] = "done" /\ res'[r].op = "updateOrderStatus")
             => /\ res'[r].orderId \notin 1..Len(orders)
                /\ res'[r].status = 404
          /\ (pc[r] = "updateWrite" /\ Moved(r))
             => /\ req[r].status \in OrderStatuses
                /\ pc'[r] = "done" /\ res'[r].status = 200
                /\ res'[r].message = req[r].status
                /\ orders'[req[r].id].status = req[r].status]_vars

\* A status update has set the order to REFUNDED and the next one, against the
\* forward order, to CONFIRMED.
C27_Witness ==
    /\ Len(orders) = 1 /\ orders[1].status = "CONFIRMED"
    /\ \E r \in Reqs : \E q \in Reqs \ {r} :
          /\ last = r /\ pc[r] = "done" /\ res[r].op = "updateOrderStatus"
          /\ res[r].status = 200 /\ res[r].orderId = 1 /\ res[r].message = "CONFIRMED"
          /\ pc[q] = "done" /\ res[q].op = "updateOrderStatus"
          /\ res[q].status = 200 /\ res[q].orderId = 1 /\ res[q].message = "REFUNDED"

\* C28: the write of an updateOrderStatus whose caller does not pass requireAdmin
\* changes no order: no status, tracking number, notes or timestamp.
C28_AdminOnly ==
    [][\A r \in Reqs :
          (/\ pc[r] = "updateWrite" /\ Answered(r)
           /\ ~RequireAdmin(AuthMiddleware(req[r].userId)))
          => orders' = orders]_vars

\* C29: every step that changes the status of an order answers a request that has
\* issued the status-update notification for that order, and a request that has
\* issued one has committed the status it announces.
C29_StatusChangeNotified ==
    [][/\ \A id \in 1..Len(orders) :
             orders'[id].status # orders[id].status
             => \E r \in Reqs :
                   /\ Answered(r) /\ res'[r].email = "orderStatusUpdate"
                   /\ res'[r].orderId = id
       /\ \A r \in Reqs :
             (Answered(r) /\ res'[r].email = "orderStatusUpdate")
             => /\ res'[r].orderId \in 1..Len(orders')
                /\ orders'[res'[r].orderId].status = res'[r].message]_vars

\* C30: a request has issued the order confirmation only in the step that commits
\* its order whole (row, item rows and decrements) and answers 201 for that
\* order; a createOrder answered with anything else has issued none and has
\* changed no order, item or stock; and what a request does after its
\* confirmation changes no order, item or stock.
C30_ConfirmationAfterCommit ==
    [][\A r \in Reqs :
          /\ (Answered(r) /\ res'[r].email = "orderConfirmation")
             => /\ pc[r] = "createTx"
                /\ CreatedWhole(r)
                /\ res'[r].orderId \in 1..Len(orders')
          /\ (Answered(r) /\ res'[r].op = "createOrder" /\ res'[r].status # 201)
             => res'[r].email = Null /\ db' = db
          /\ (pc[r] = "done" /\ res[r].email = "orderConfirmation" /\ Moved(r))
             => db' = db]_vars

\* One createOrder has committed its order and issued the confirmation; another,
\* whose transaction failed, has issued none and left no order behind.
C30_Witness ==
    /\ Len(orders) = 1
    /\ \E r \in Reqs : \E q \in Reqs \ {r} :
          /\ pc[r] = "done" /\ res[r].op = "createOrder" /\ res[r].status = 201
          /\ res[r].orderId = 1 /\ res[r].email = "orderConfirmation"
          /\ ItemsOf(1) # <<>>
          /\ last = q /\ pc[q] = "done" /\ res[q].op = "createOrder"
          /\ res[q].status = 500 /\ res[q].email = Null

NotFound(r) ==
    /\ pc'[r] = "done" /\ res'[r].status = 404 /\ res'[r].message = "Order not found"
    /\ db' = db

C33_OrderFrame ==
    [][/\ Len(orders') >= Len(orders)
       /\ \A id \in 1..Len(orders) :
             orders'[id] = [orders[id] EXCEPT !.status = orders'[id].status,
                                              !.trackingNumber = orders'[id].trackingNumber,
                                              !.notes = orders'[id].notes,
                                              !.shippedAt = orders'[id].shippedAt,
                                              !.deliveredAt = orders'[id].deliveredAt]
       /\ Len(orderItem') >= Len(orderItem)
       /\ SubSeq(orderItem', 1, Len(orderItem)) = orderItem]_vars

\* The order has been confirmed by a status update and then cancelled, and
\* still has its number, its owner, its addresses, its amounts and its item.
C33_Witness ==
    /\ Len(orders) = 1 /\ orders[1].status = "CANCELLED"
    /\ orders[1].orderNumber = 1 /\ orders[1].userId = Buyer
    /\ orders[1].shippingAddress = "a1" /\ orders[1].billingAddress = "a1"
    /\ orders[1].subtotal = 6000 /\ orders[1].totalAmount = 7600
    /\ Len(ItemsOf(1)) = 1 /\ ItemsOf(1)[1].variantId = "V1"
    /\ ItemsOf(1)[1].quantity = 1 /\ ItemsOf(1)[1].totalPrice = 6000
    /\ \E r \in Reqs : \E q \in Reqs \ {r} :
          /\ last = r /\ pc[r] = "done" /\ res[r].op = "cancelOrder"
          /\ res[r].status = 200 /\ res[r].orderId = 1
          /\ pc[q] = "done" /\ res[q].op = "updateOrderStatus" /\ res[q].status = 200
          /\ res[q].message = "CONFIRMED"

\* C34: when nothing but cancelOrder requests follow the placing of the order,
\* the stock of its item never rises above what it was before the order was
\* placed: the ordered quantity is given back at most once.
C34_RestoredAtMostOnce ==
    /\ \A v \in Variants : variants[v].stockQuantity <= InitVariantStock
    /\ \A p \in Products : products[p].stockQuantity <= InitProductStock

\* The stock of a product or variant before any order was placed.
StockBeforeOrders(k) == IF k \in Variants THEN InitVariantStock ELSE InitProductStock

\* C35: with requests served one at a time, the orders never give back more than
\* they took: no stock level is above what it was before any order was placed,
\* also after an order was cancelled, set back by a status update and cancelled
\* again.
C35_RestoredWithinDecrement ==
    \A k \in StockKeys : StockOf(k) <= StockBeforeOrders(k)

\* The step is the commit of request r's cancelOrder transaction.
CancelCommits(r) ==
    /\ pc[r] = "cancelTx" /\ pc'[r] = "done"
    /\ res'[r].op = "cancelOrder" /\ res'[r].status = 200

\* C36: a cancelOrder commits only while the order is PENDING or CONFIRMED at the
\* moment of the commit; an order that a status update has moved to SHIPPED in
\* the meantime is not turned into CANCELLED.
C36_CancelOnlyWhileCancellable ==
    [][\A r \in Reqs :
          CancelCommits(r) => orders[req[r].id].status \in {"PENDING", "CONFIRMED"}]_vars

\* C37: a shippedAt or deliveredAt that has been committed is never written
\* back to null, also not by a status update that read the order before the
\* commit.
C37_StampsNeverCleared ==
    [][\A id \in 1..Len(orders) :
          /\ orders[id].shippedAt # 0 => orders'[id].shippedAt # 0
          /\ orders[id].deliveredAt # 0 => orders'[id].deliveredAt # 0]_vars

\* The step is the commit of request r's createOrder transaction.
CreateCommits(r) ==
    /\ pc[r] = "createTx" /\ pc'[r] = "done"
    /\ Len(orders') = Len(orders) + 1

\* C38: a createOrder commits only while every product among its items is
\* active at the moment of the commit, also when a deleteProduct runs at the
\* same time.
C38_NoOrderOfInactiveProduct ==
    [][\A r \in Reqs :
          CreateCommits(r)
          => \A i \in 1..Len(req[r].items) : products[req[r].items[i].productId].isActive]_vars

\* C39: no step of a status update changes a product or variant row, whatever
\* status it sets; and a cancelOrder of an order that is CANCELLED or REFUNDED is
\* answered with an error and changes nothing, so that the quantity of an order
\* cancelled or refunded by a status update stays deducted.
C39_StatusUpdateKeepsStock ==
    [][\A r \in Reqs :
          /\ ((req[r].op = "updateOrderStatus" \/ req'[r].op = "updateOrderStatus") /\ Moved(r))
             => products' = products /\ variants' = variants
          /\ \A id \in 1..Len(orders) :
                (CancelBegins(r, id) /\ orders[id].status \in {"CANCELLED", "REFUNDED"})
                => Rejected(r)]_vars

\* The placed order has been refunded by a status update and a cancelOrder of
\* its owner has then been refused: the unit it took is still out of stock.
C39_Witness ==
    /\ Len(orders) = 1 /\ orders[1].status = "REFUNDED"
    /\ variants["V1"].stockQuantity = InitVariantStock - 1
    /\ products["P1"].stockQuantity = InitProductStock
    /\ \E r \in Reqs : \E q \in Reqs \ {r} :
          /\ last = r /\ pc[r] = "done" /\ res[r].op = "cancelOrder"
          /\ res[r].status = 400 /\ res[r].orderId = 1
          /\ pc[q] = "done" /\ res[q].op = "updateOrderStatus" /\ res[q].status = 200
          /\ res[q].message = "REFUNDED"

\* The step is the commit of request r's status update.
UpdateCommits(r) ==
    /\ pc[r] = "updateWrite" /\ pc'[r] = "done"
    /\ res'[r].op = "updateOrderStatus" /\ res'[r].status = 200

\* What is stored for a carried text: the text, or null for an empty one.
StoredFor(text) == IF text = "" THEN Null ELSE text

\* C40 as stated: a status update stores the tracking number and the notes it
\* carries, null for one it omits, and a cancelOrder leaves both as they are.
C40_CarriedValuesStored ==
    [][\A r \in Reqs :
          /\ UpdateCommits(r)
             => /\ orders'[req[r].id].trackingNumber = req[r].trackingNumber
                /\ orders'[req[r].id].notes = req[r].notes
          /\ CancelCommits(r)
             => /\ orders'[req[r].id].trackingNumber = orders[req[r].id].trackingNumber
                /\ orders'[req[r].id].notes = orders[req[r].id].notes]_vars

\* C40, amended: a status update stores the tracking number and the notes it
\* carries, null for one that it omits or that is the empty string, whatever was
\* stored before; a cancelOrder leaves both as they are.
C40_CarriedOrNullStored ==
    [][\A r \in Reqs :
          /\ UpdateCommits(r)
             => /\ orders'[req[r].id].trackingNumber = StoredFor(req[r].trackingNumber)
                /\ orders'[req[r].id].notes = StoredFor(req[r].notes)
          /\ CancelCommits(r)
             => /\ orders'[req[r].id].trackingNumber = orders[req[r].id].trackingNumber
                /\ orders'[req[r].id].notes = orders[req[r].id].notes]_vars

\* A status update has stored a tracking number and notes, and the cancelOrder
\* that followed has left them in place.
C40_Witness ==
    /\ orders[1].status = "CANCELLED"
    /\ orders[1].trackingNumber = "TRK1" /\ orders[1].notes = "note"
    /\ \E r \in Reqs : \E q \in Reqs \ {r} :
          /\ last = r /\ pc[r] = "done" /\ res[r].op = "cancelOrder" /\ res[r].status = 200
          /\ pc[q] = "done" /\ res[q].op = "updateOrderStatus" /\ res[q].status = 200

====
